---------------------------- MODULE Spec2Model ----------------------------
(***************************************************************************)
(* Model of the parallel composition engine of go-libp2p-routing-helpers   *)
(* (compparallel.go): the require-all reducer `execute`, the race reducer  *)
(* `getValueOrError`, and the streaming fan-ins FindProvidersAsync and     *)
(* SearchValue.                                                            *)
(*                                                                         *)
(* One call of one function is modelled.  Every router entry runs one      *)
(* goroutine (a "task"), one more goroutine waits on the WaitGroup and     *)
(* closes the channels (the "closer"), and the caller's goroutine ("main") *)
(* receives.  The channels are unbuffered, so a send and its receive are   *)
(* one joint step.  A Go select over several ready cases picks any of      *)
(* them: each ready case is one enabled action.  Durations (ExecuteAfter,  *)
(* Timeout, the caller's deadline) are modelled by the events they cause:  *)
(* the timer channel becoming ready, the per-entry context expiring, the   *)
(* caller's context being cancelled, in any order.                         *)
(*                                                                         *)
(* An error value is the sequence of its leaf errors: <<>> is nil, a       *)
(* one-element sequence is a plain error, a longer one is an aggregate     *)
(* (a multierror.Error, as a nested composite router returns).  A leaf     *)
(* records the entry it comes from, so that the origin of every entry of   *)
(* an aggregate can be stated.                                             *)
(***************************************************************************)
EXTENDS Naturals, Sequences, FiniteSets

VARIABLES
    routers,    \* the call's router entries: sequence of [IgnoreError]
    ctxDone,    \* the caller's context is cancelled / past its deadline
    timC,       \* timC[i]: entry i's ExecuteAfter timer has fired
    pc,         \* pc[i]: where entry i's goroutine is
    pending,    \* pending[i]: the error or value task i is handing over
    errCh,      \* "open" or "closed"
    errOut,     \* execute: the aggregate built by the range loop
    mainPc,     \* "running" or "returned"
    retErr,     \* the error the call returned
    invoked,    \* history: number of times entry i's closure was invoked
    res,        \* history: the error entry i's closure returned
    chose,      \* history: the case entry i's first select took
    firedFirst, \* history: entry i's timer fired before the cancellation
    cancelInFlight, \* history: the cancellation fired while an entry was
                \* waiting or running
    outCh,      \* getValueOrError: "open" or "closed"
    gcancel,    \* getValueOrError: gcancel() has been called
    expired,    \* expired[i]: entry i's Timeout has passed since it started
    retVal,     \* the value the call returned (0 is the zero value)
    val,        \* the value entry i's closure returned (0 is empty)
    winner,     \* history: the entry whose handover the caller received
    firstAnswer,\* history: the first entry whose closure returned a
                \* non-empty value or a hard error
    op,         \* the function that was called
    count,      \* FindProvidersAsync: the count argument (0 is no limit)
    totalCount, \* FindProvidersAsync: the shared atomic counter
    left,       \* left[i]: items the stream of entry i's backend has yet
                \* to yield before it is closed
    received,   \* number of items the caller received from the stream
    reading,    \* the caller is still receiving from the stream
    retStream,  \* the call returned the stream (FALSE: it returned nil)
    lateDelivery \* history: an item was delivered after the cancellation

\* The state only getValueOrError uses.
raceVars == <<outCh, gcancel, expired, retVal, val, winner, firstAnswer>>

\* The state only the streaming functions use, and the function called.
streamVars == <<op, count, totalCount, left, received, reading, retStream,
                lateDelivery>>

vars == <<routers, ctxDone, timC, pc, pending, errCh, errOut, mainPc,
          retErr, invoked, res, chose, firedFirst, cancelInFlight, raceVars,
          streamVars>>

\* Largest number of router entries of a call.
MaxRouters == 2

\* Largest number of items the stream of one backend yields.
MaxItems == 2

\* Largest count argument of FindProvidersAsync.
MaxCount == 2

Entries == 1 .. Len(routers)

\* The nil error.
Nil == <<>>

Leaf(i, kind) == [from |-> i, kind |-> kind]

\* ctx.Err() of the caller's context, as sent by entry i.
CtxErr(i) == <<Leaf(i, "ctx")>>

\* ParallelRouter: only IgnoreError is read by the reducers as data.
ParallelRouter == [IgnoreError : BOOLEAN]

\* The errors the closure f of entry i can return in execute: nil, a plain
\* error, an aggregate of two errors, and the context's error once the
\* context handed to it is cancelled.
ExecuteResults(i) ==
    {Nil, <<Leaf(i, "hard")>>, <<Leaf(i, "hard"), Leaf(i, "other")>>}
        \cup (IF ctxDone THEN {CtxErr(i)} ELSE {})

\* Fault variant: only the first error is kept.
multierrorAppend_KeepFirst(agg, err) == IF agg = Nil THEN err ELSE agg

\* multierror.Append(errOut, err): err's leaves are appended; an err that is
\* itself an aggregate is flattened one level.
multierrorAppend(agg, err) == agg \o err

\* wg.Wait() returns: every task has called wg.Done().
wgWait == \A i \in Entries : pc[i] = "done"

-----------------------------------------------------------------------------
(* The state after the called function has started its goroutines *)

\* The four functions that fan out over the router entries.
Ops == {"execute", "getValueOrError", "FindProvidersAsync", "SearchValue"}

\* The router entries function o can be called with.  FindProvidersAsync
\* never reads IgnoreError: one value of the flag stands for both.
Routers(o) ==
    IF o = "FindProvidersAsync" THEN {r \in ParallelRouter : ~r.IgnoreError}
                                ELSE ParallelRouter

\* The state after function o has started its goroutines.
\* FindProvidersAsync has then already returned its stream.
Start(o) ==
    /\ op = o
    /\ \E n \in 0 .. MaxRouters : routers \in [1 .. n -> Routers(o)]
    /\ ctxDone = FALSE
    /\ timC = [i \in Entries |-> FALSE]
    /\ pc = [i \in Entries |-> "select"]
    /\ pending = [i \in Entries |-> Nil]
    /\ errCh = "open"
    /\ errOut = Nil
    /\ mainPc = (IF o = "FindProvidersAsync" THEN "returned" ELSE "running")
    /\ retErr = Nil
    /\ invoked = [i \in Entries |-> 0]
    /\ res = [i \in Entries |-> Nil]
    /\ chose = [i \in Entries |-> "none"]
    /\ firedFirst = [i \in Entries |-> FALSE]
    /\ cancelInFlight = FALSE
    /\ outCh = "open"
    /\ gcancel = FALSE
    /\ expired = [i \in Entries |-> FALSE]
    /\ retVal = 0
    /\ val = [i \in Entries |-> 0]
    /\ winner = 0
    /\ firstAnswer = 0
    /\ count \in (IF o = "FindProvidersAsync" THEN 0 .. MaxCount ELSE {0})
    /\ totalCount = 0
    /\ left = [i \in Entries |-> 0]
    /\ received = 0
    /\ reading = TRUE
    /\ retStream = (o = "FindProvidersAsync")
    /\ lateDelivery = FALSE

Init == \E o \in Ops : Start(o)

-----------------------------------------------------------------------------
(* execute *)

\* The caller cancels its context, or its deadline passes.
ExecuteCancel ==
    /\ UNCHANGED streamVars
    /\ ~ctxDone
    /\ mainPc = "running"
    /\ ctxDone' = TRUE
    /\ cancelInFlight' = (\E i \in Entries : pc[i] \in {"select", "running"})
    /\ UNCHANGED <<routers, timC, pc, pending, errCh, errOut, mainPc, retErr,
                   invoked, res, chose, firedFirst>>
    /\ UNCHANGED raceVars

\* Entry i's ExecuteAfter timer fires: tim.C becomes ready.
ExecuteTimerFire(i) ==
    /\ UNCHANGED streamVars
    /\ pc[i] = "select"
    /\ ~timC[i]
    /\ timC' = [timC EXCEPT ![i] = TRUE]
    /\ firedFirst' = [firedFirst EXCEPT ![i] = ~ctxDone]
    /\ UNCHANGED <<routers, ctxDone, pc, pending, errCh, errOut, mainPc,
                   retErr, invoked, res, chose, cancelInFlight>>
    /\ UNCHANGED raceVars

\* Fault variant: the IgnoreError flag is not consulted.
ExecuteSendsCtxErr_Always(r) == TRUE

\* Whether the cancellation branch of execute's select sends ctx.Err().
ExecuteSendsCtxErr(r) == ~r.IgnoreError

\* select, case <-ctx.Done(): a non-ignoring entry goes on to send ctx.Err(),
\* an ignoring one returns.
ExecuteSelectDone(i) ==
    /\ UNCHANGED streamVars
    /\ pc[i] = "select"
    /\ ctxDone
    /\ chose' = [chose EXCEPT ![i] = "ctx"]
    /\ IF ExecuteSendsCtxErr(routers[i])
         THEN /\ pc' = [pc EXCEPT ![i] = "send"]
              /\ pending' = [pending EXCEPT ![i] = CtxErr(i)]
         ELSE /\ pc' = [pc EXCEPT ![i] = "done"]
              /\ UNCHANGED pending
    /\ UNCHANGED <<routers, ctxDone, timC, errCh, errOut, mainPc, retErr,
                   invoked, res, firedFirst, cancelInFlight>>
    /\ UNCHANGED raceVars

\* Fault variant: the timer case does not wait for the timer.
TimerReady_Always(i) == TRUE

\* Fault variant: the timer case is never ready.
TimerReady_Never(i) == FALSE

\* case <-tim.C is ready.
TimerReady(i) == timC[i]

\* select, case <-tim.C: the closure f is invoked.
ExecuteSelectTimer(i) ==
    /\ UNCHANGED streamVars
    /\ pc[i] = "select"
    /\ TimerReady(i)
    /\ chose' = [chose EXCEPT ![i] = "tim"]
    /\ pc' = [pc EXCEPT ![i] = "running"]
    /\ invoked' = [invoked EXCEPT ![i] = @ + 1]
    /\ UNCHANGED <<routers, ctxDone, timC, pending, errCh, errOut, mainPc,
                   retErr, res, firedFirst, cancelInFlight>>
    /\ UNCHANGED raceVars

\* Fault variant: the IgnoreError flag is not consulted.
ExecuteSendsErr_IgnoreFlagUnread(r, err) == err # Nil

\* Whether execute sends the closure's error on errCh.
ExecuteSendsErr(r, err) == err # Nil /\ ~r.IgnoreError

\* The closure returns err.
ExecuteReturn(i) ==
    /\ UNCHANGED streamVars
    /\ pc[i] = "running"
    /\ \E err \in ExecuteResults(i) :
         /\ res' = [res EXCEPT ![i] = err]
         /\ IF ExecuteSendsErr(routers[i], err)
              THEN /\ pc' = [pc EXCEPT ![i] = "send"]
                   /\ pending' = [pending EXCEPT ![i] = err]
              ELSE /\ pc' = [pc EXCEPT ![i] = "done"]
                   /\ UNCHANGED pending
    /\ UNCHANGED <<routers, ctxDone, timC, errCh, errOut, mainPc, retErr,
                   invoked, chose, firedFirst, cancelInFlight>>
    /\ UNCHANGED raceVars

\* errCh <- err meets the range loop's receive; the task then returns.
ExecuteRecv(i) ==
    /\ UNCHANGED streamVars
    /\ pc[i] = "send"
    /\ mainPc = "running"
    /\ errCh = "open"
    /\ errOut' = multierrorAppend(errOut, pending[i])
    /\ pc' = [pc EXCEPT ![i] = "done"]
    /\ pending' = [pending EXCEPT ![i] = Nil]
    /\ UNCHANGED <<routers, ctxDone, timC, errCh, mainPc, retErr, invoked,
                   res, chose, firedFirst, cancelInFlight>>
    /\ UNCHANGED raceVars

\* Fault variant: the channel is closed as soon as one task is done.
ExecuteCloseWhen_AnyDone == Entries = {} \/ \E i \in Entries : pc[i] = "done"

\* When the closing goroutine of execute closes errCh.
ExecuteCloseWhen == wgWait

\* wg.Wait(); close(errCh)
ExecuteClose ==
    /\ UNCHANGED streamVars
    /\ errCh = "open"
    /\ ExecuteCloseWhen
    /\ errCh' = "closed"
    /\ UNCHANGED <<routers, ctxDone, timC, pc, pending, errOut, mainPc,
                   retErr, invoked, res, chose, firedFirst, cancelInFlight>>
    /\ UNCHANGED raceVars

\* The range loop ends on the closed channel; return errOut.
ExecuteRet ==
    /\ UNCHANGED streamVars
    /\ mainPc = "running"
    /\ errCh = "closed"
    /\ mainPc' = "returned"
    /\ retErr' = errOut
    /\ UNCHANGED <<routers, ctxDone, timC, pc, pending, errCh, errOut,
                   invoked, res, chose, firedFirst, cancelInFlight>>
    /\ UNCHANGED raceVars

NextExecute ==
    \/ ExecuteCancel
    \/ \E i \in Entries : ExecuteTimerFire(i)
    \/ \E i \in Entries : ExecuteSelectDone(i)
    \/ \E i \in Entries : ExecuteSelectTimer(i)
    \/ \E i \in Entries : ExecuteReturn(i)
    \/ \E i \in Entries : ExecuteRecv(i)
    \/ ExecuteClose
    \/ ExecuteRet

SpecExecute == Start("execute") /\ [][NextExecute]_vars

-----------------------------------------------------------------------------
(* getValueOrError *)

\* routing.ErrNotFound
NotFound == <<Leaf(0, "notfound")>>

\* errors.Is(err, routing.ErrNotFound)
IsNotFound(err) == err = NotFound

\* The isEmpty predicate of FindPeer and GetValue: the zero value is empty.
isEmpty(v) == v = 0

\* The context made by context.WithCancel(ctx): done when the caller's
\* context is done or gcancel() was called.
RaceCtxDone == ctxDone \/ gcancel

\* Fault variant: the entry context always reads as done.
EntryCtxDone_Always(i) == TRUE

\* Entry i's context made by context.WithTimeout(ctx, r.Timeout).
EntryCtxDone(i) == RaceCtxDone \/ expired[i]

\* What the closure f of entry i can return in getValueOrError: an empty or
\* a non-empty value (entry i's own is i), with nil, ErrNotFound or another
\* error (the error of an expired or cancelled context is such an error).
RaceResults(i) ==
    [val : {0, i}, err : {Nil, NotFound, <<Leaf(i, "hard")>>}]

\* Entry i's Timeout passes; the entry's goroutine reads its context only in
\* its second select, holding an error or a value.
Timeout(i) ==
    /\ UNCHANGED streamVars
    /\ pc[i] \in {"offerErr", "offerVal"}
    /\ ~expired[i]
    /\ expired' = [expired EXCEPT ![i] = TRUE]
    /\ UNCHANGED <<routers, ctxDone, timC, pc, pending, errCh, errOut,
                   mainPc, retErr, invoked, res, chose, firedFirst,
                   cancelInFlight, outCh, gcancel, retVal, val, winner,
                   firstAnswer>>

\* The caller cancels its context, or its deadline passes.
RaceCancel ==
    /\ UNCHANGED streamVars
    /\ ~ctxDone
    /\ mainPc = "running"
    /\ ctxDone' = TRUE
    /\ UNCHANGED <<routers, timC, pc, pending, errCh, errOut, mainPc, retErr,
                   invoked, res, chose, firedFirst, cancelInFlight, raceVars>>

\* Entry i's ExecuteAfter timer fires: tim.C becomes ready.
RaceTimerFire(i) ==
    /\ UNCHANGED streamVars
    /\ pc[i] = "select"
    /\ ~timC[i]
    /\ timC' = [timC EXCEPT ![i] = TRUE]
    /\ UNCHANGED <<routers, ctxDone, pc, pending, errCh, errOut, mainPc,
                   retErr, invoked, res, chose, firedFirst, cancelInFlight,
                   raceVars>>

\* select, case <-ctx.Done(): a non-ignoring entry sends ctx.Err() on errCh,
\* unconditionally; an ignoring one returns.
RaceSelectDone(i) ==
    /\ UNCHANGED streamVars
    /\ pc[i] = "select"
    /\ RaceCtxDone
    /\ chose' = [chose EXCEPT ![i] = "ctx"]
    /\ IF ~routers[i].IgnoreError
         THEN /\ pc' = [pc EXCEPT ![i] = "sendCtx"]
              /\ pending' = [pending EXCEPT ![i] = CtxErr(i)]
         ELSE /\ pc' = [pc EXCEPT ![i] = "done"]
              /\ UNCHANGED pending
    /\ UNCHANGED <<routers, ctxDone, timC, errCh, errOut, mainPc, retErr,
                   invoked, res, firedFirst, cancelInFlight, raceVars>>

\* select, case <-tim.C: the closure f is invoked.
RaceSelectTimer(i) ==
    /\ UNCHANGED streamVars
    /\ pc[i] = "select"
    /\ TimerReady(i)
    /\ chose' = [chose EXCEPT ![i] = "tim"]
    /\ pc' = [pc EXCEPT ![i] = "running"]
    /\ invoked' = [invoked EXCEPT ![i] = @ + 1]
    /\ UNCHANGED <<routers, ctxDone, timC, pending, errCh, errOut, mainPc,
                   retErr, res, firedFirst, cancelInFlight, raceVars>>

\* Fault variant: ErrNotFound is not told apart from other errors.
RaceOffersErr_NotFoundIsHard(r, err) == err # Nil /\ ~r.IgnoreError

\* Fault variant: no error is offered.
RaceOffersErr_Never(r, err) == FALSE

\* Whether getValueOrError offers the closure's error on errCh.
RaceOffersErr(r, err) == err # Nil /\ ~IsNotFound(err) /\ ~r.IgnoreError

\* Fault variant: the isEmpty check is missing.
RaceDropsValue_Never(v) == FALSE

\* Whether getValueOrError drops the closure's value.
RaceDropsValue(v) == isEmpty(v)

\* The closure returns (value, err).
RaceReturn(i) ==
    /\ UNCHANGED streamVars
    /\ pc[i] = "running"
    /\ \E r \in RaceResults(i) :
         /\ val' = [val EXCEPT ![i] = r.val]
         /\ res' = [res EXCEPT ![i] = r.err]
         /\ IF RaceOffersErr(routers[i], r.err)
              THEN /\ pc' = [pc EXCEPT ![i] = "offerErr"]
                   /\ pending' = [pending EXCEPT ![i] = r.err]
              ELSE /\ pc' = [pc EXCEPT ![i] =
                                IF RaceDropsValue(r.val) THEN "done"
                                                         ELSE "offerVal"]
                   /\ UNCHANGED pending
         /\ firstAnswer' =
              IF /\ firstAnswer = 0
                 /\ RaceOffersErr(routers[i], r.err) \/ ~isEmpty(r.val)
                THEN i ELSE firstAnswer
    /\ UNCHANGED <<routers, ctxDone, timC, errCh, errOut, mainPc, retErr,
                   invoked, chose, firedFirst, cancelInFlight, outCh,
                   gcancel, expired, retVal, winner>>

\* The entry's second select, case <-ctx.Done(): the task returns without
\* handing over what it holds.
RaceAbandon(i) ==
    /\ UNCHANGED streamVars
    /\ pc[i] \in {"offerErr", "offerVal"}
    /\ EntryCtxDone(i)
    /\ pc' = [pc EXCEPT ![i] = "done"]
    /\ pending' = [pending EXCEPT ![i] = Nil]
    /\ UNCHANGED <<routers, ctxDone, timC, errCh, errOut, mainPc, retErr,
                   invoked, res, chose, firedFirst, cancelInFlight, raceVars>>

\* wg.Wait(); close(outCh)
RaceCloseOut ==
    /\ UNCHANGED streamVars
    /\ outCh = "open"
    /\ wgWait
    /\ outCh' = "closed"
    /\ UNCHANGED <<routers, ctxDone, timC, pc, pending, errCh, errOut,
                   mainPc, retErr, invoked, res, chose, firedFirst,
                   cancelInFlight, gcancel, expired, retVal, val, winner,
                   firstAnswer>>

\* close(errCh)
RaceCloseErr ==
    /\ UNCHANGED streamVars
    /\ outCh = "closed"
    /\ errCh = "open"
    /\ errCh' = "closed"
    /\ UNCHANGED <<routers, ctxDone, timC, pc, pending, errOut, mainPc,
                   retErr, invoked, res, chose, firedFirst, cancelInFlight,
                   raceVars>>

\* Fault variant: a closed channel yields a nil error.
ClosedResult_Nil == Nil

\* What the caller's select returns on a closed channel.
ClosedResult == NotFound

\* Fault variant: the cancellation case returns ErrNotFound.
CallerCtxErr_NotFound == NotFound

\* ctx.Err() as the caller's select returns it.
CallerCtxErr == CtxErr(0)

\* Every case of the caller's select calls gcancel() and returns.
RaceRet(v, err, i) ==
    /\ UNCHANGED streamVars
    /\ mainPc' = "returned"
    /\ gcancel' = TRUE
    /\ retVal' = v
    /\ retErr' = err
    /\ winner' = i
    /\ UNCHANGED <<routers, ctxDone, timC, errCh, errOut, invoked, res,
                   chose, firedFirst, cancelInFlight, outCh, expired, val,
                   firstAnswer>>

\* case out, ok := <-outCh with a value: outCh <- value of task i meets
\* the receive; return out, nil.
RaceRecvVal(i) ==
    /\ mainPc = "running"
    /\ pc[i] = "offerVal"
    /\ pc' = [pc EXCEPT ![i] = "done"]
    /\ UNCHANGED pending
    /\ RaceRet(val[i], Nil, i)

\* case err, ok := <-errCh with an error: errCh <- err of task i (from
\* either of its sends) meets the receive; return value, err.
RaceRecvErr(i) ==
    /\ mainPc = "running"
    /\ pc[i] \in {"offerErr", "sendCtx"}
    /\ pc' = [pc EXCEPT ![i] = "done"]
    /\ pending' = [pending EXCEPT ![i] = Nil]
    /\ RaceRet(0, pending[i], i)

\* case out, ok := <-outCh, outCh closed: return value, routing.ErrNotFound.
RaceOutClosed ==
    /\ mainPc = "running"
    /\ outCh = "closed"
    /\ UNCHANGED <<pc, pending>>
    /\ RaceRet(0, ClosedResult, 0)

\* case err, ok := <-errCh, errCh closed: return value, routing.ErrNotFound.
RaceErrClosed ==
    /\ mainPc = "running"
    /\ errCh = "closed"
    /\ UNCHANGED <<pc, pending>>
    /\ RaceRet(0, ClosedResult, 0)

\* case <-ctx.Done(): return value, ctx.Err().
RaceCallerDone ==
    /\ mainPc = "running"
    /\ ctxDone
    /\ UNCHANGED <<pc, pending>>
    /\ RaceRet(0, CallerCtxErr, 0)

\* The steps of entry i's goroutine.
RaceTask(i) ==
    \/ RaceTimerFire(i)
    \/ Timeout(i)
    \/ RaceSelectDone(i)
    \/ RaceSelectTimer(i)
    \/ RaceReturn(i)
    \/ RaceAbandon(i)

\* The steps of the closing goroutine.
RaceCloser == RaceCloseOut \/ RaceCloseErr

\* The caller's select.
RaceMain ==
    \/ \E i \in Entries : RaceRecvVal(i)
    \/ \E i \in Entries : RaceRecvErr(i)
    \/ RaceOutClosed
    \/ RaceErrClosed
    \/ RaceCallerDone

NextRace ==
    \/ RaceCancel
    \/ \E i \in Entries : RaceTimerFire(i)
    \/ \E i \in Entries : Timeout(i)
    \/ \E i \in Entries : RaceSelectDone(i)
    \/ \E i \in Entries : RaceSelectTimer(i)
    \/ \E i \in Entries : RaceReturn(i)
    \/ \E i \in Entries : RaceAbandon(i)
    \/ RaceCloseOut
    \/ RaceCloseErr
    \/ \E i \in Entries : RaceRecvVal(i)
    \/ \E i \in Entries : RaceRecvErr(i)
    \/ RaceOutClosed
    \/ RaceErrClosed
    \/ RaceCallerDone

SpecRace == Start("getValueOrError") /\ [][NextRace]_vars

\* The Go scheduler runs every runnable goroutine, and timers fire: every
\* goroutine that can take a step eventually takes one.
FairSpecRace ==
    /\ SpecRace
    /\ \A i \in 1 .. MaxRouters : WF_vars(i \in Entries /\ RaceTask(i))
    /\ WF_vars(RaceCloser)
    /\ WF_vars(RaceMain)

-----------------------------------------------------------------------------
(* The streaming fan-in: what FindProvidersAsync and SearchValue share *)

\* Fault variant: the entry's context carries no timeout.
StreamCtxDone_CallerOnly(i) == ctxDone

\* Entry i's context made by context.WithTimeout(ctx, r.Timeout) from the
\* caller's context.
StreamCtxDone(i) == ctxDone \/ expired[i]

\* The caller cancels its context, or its deadline passes; this can happen
\* while the stream is being read, after the call has returned.
StreamCancel ==
    /\ ~ctxDone
    /\ ctxDone' = TRUE
    /\ UNCHANGED <<routers, timC, pc, pending, errCh, errOut, mainPc, retErr,
                   invoked, res, chose, firedFirst, cancelInFlight, raceVars,
                   streamVars>>

\* Entry i's ExecuteAfter timer fires: tim.C becomes ready.
StreamTimerFire(i) ==
    /\ pc[i] = "select"
    /\ ~timC[i]
    /\ timC' = [timC EXCEPT ![i] = TRUE]
    /\ UNCHANGED <<routers, ctxDone, pc, pending, errCh, errOut, mainPc,
                   retErr, invoked, res, chose, firedFirst, cancelInFlight,
                   raceVars, streamVars>>

\* Entry i's Timeout passes; the entry's goroutine reads its context in the
\* selects of its loop and in the select of its error send.
StreamTimeout(i) ==
    /\ pc[i] \in {"loop", "sendItem", "offerErr"}
    /\ ~expired[i]
    /\ expired' = [expired EXCEPT ![i] = TRUE]
    /\ UNCHANGED <<routers, ctxDone, timC, pc, pending, errCh, errOut,
                   mainPc, retErr, invoked, res, chose, firedFirst,
                   cancelInFlight, outCh, gcancel, retVal, val, winner,
                   firstAnswer, streamVars>>

\* The caller, holding the stream, stops receiving from it.
StopReading ==
    /\ mainPc = "returned"
    /\ retStream
    /\ reading
    /\ reading' = FALSE
    /\ UNCHANGED <<routers, ctxDone, timC, pc, pending, errCh, errOut,
                   mainPc, retErr, invoked, res, chose, firedFirst,
                   cancelInFlight, raceVars, op, count, totalCount, left,
                   received, retStream, lateDelivery>>

\* Fault variant: the output channel is buffered, a send needs no receiver.
ReaderReady_Buffered == TRUE

\* A receive on the merged output channel is ready: the caller holds the
\* stream and is receiving from it.
ReaderReady == mainPc = "returned" /\ retStream /\ reading

\* What entry task i leaves unchanged in a step of its own that touches
\* only pc, the backend's stream and the counters.
TaskFrame ==
    UNCHANGED <<routers, ctxDone, timC, errCh, errOut, mainPc, retErr,
                firedFirst, cancelInFlight, raceVars, op, count, reading,
                retStream>>

-----------------------------------------------------------------------------
(* FindProvidersAsync *)

\* select, case <-ctx.Done(): return.
ProvidersSelectDone(i) ==
    /\ pc[i] = "select"
    /\ ctxDone
    /\ chose' = [chose EXCEPT ![i] = "ctx"]
    /\ pc' = [pc EXCEPT ![i] = "done"]
    /\ UNCHANGED <<pending, invoked, res, totalCount, left, received,
                   lateDelivery>>
    /\ TaskFrame

\* select, case <-tim.C: the backend's FindProvidersAsync is called.
ProvidersSelectTimer(i) ==
    /\ pc[i] = "select"
    /\ TimerReady(i)
    /\ chose' = [chose EXCEPT ![i] = "tim"]
    /\ pc' = [pc EXCEPT ![i] = "running"]
    /\ invoked' = [invoked EXCEPT ![i] = @ + 1]
    /\ UNCHANGED <<pending, res, totalCount, left, received, lateDelivery>>
    /\ TaskFrame

\* The backend's FindProvidersAsync returns its stream, which will yield n
\* items and then be closed; the task enters its loop.
ProvidersReturn(i) ==
    /\ pc[i] = "running"
    /\ pc' = [pc EXCEPT ![i] = "loop"]
    /\ \E n \in 0 .. MaxItems : left' = [left EXCEPT ![i] = n]
    /\ UNCHANGED <<pending, invoked, res, chose, totalCount, received,
                   lateDelivery>>
    /\ TaskFrame

\* The loop's select, case <-ctx.Done(): return.
ProvidersLoopDone(i) ==
    /\ pc[i] = "loop"
    /\ StreamCtxDone(i)
    /\ pc' = [pc EXCEPT ![i] = "done"]
    /\ UNCHANGED <<pending, invoked, res, chose, totalCount, left, received,
                   lateDelivery>>
    /\ TaskFrame

\* Fault variant: the counter is compared one item too late.
QuotaExceeded_OffByOne(n, limit) == n > limit + 1 /\ limit # 0

\* Fault variant: the task stops on reaching the limit.
QuotaExceeded_AtLimit(n, limit) == n >= limit /\ limit # 0

\* atomic.AddInt64(&totalCount, 1) > int64(count) && count != 0, where n is
\* the value AddInt64 returns.
QuotaExceeded(n, limit) == n > limit /\ limit # 0

\* The loop's select, case addr, ok := <-addrChan with an item: the shared
\* counter is incremented atomically and the new value is tested; the task
\* returns when the quota is exceeded and goes on to send the item
\* otherwise.
ProvidersRecv(i) ==
    /\ pc[i] = "loop"
    /\ left[i] > 0
    /\ left' = [left EXCEPT ![i] = @ - 1]
    /\ totalCount' = totalCount + 1
    /\ pc' = [pc EXCEPT ![i] =
                IF QuotaExceeded(totalCount + 1, count) THEN "done"
                                                        ELSE "sendItem"]
    /\ UNCHANGED <<pending, invoked, res, chose, received, lateDelivery>>
    /\ TaskFrame

\* The loop's select, case addr, ok := <-addrChan on the closed stream:
\* return.
ProvidersStreamEnd(i) ==
    /\ pc[i] = "loop"
    /\ left[i] = 0
    /\ pc' = [pc EXCEPT ![i] = "done"]
    /\ UNCHANGED <<pending, invoked, res, chose, totalCount, left, received,
                   lateDelivery>>
    /\ TaskFrame

\* The inner select, case <-ctx.Done(): return, dropping the item.
ProvidersSendDone(i) ==
    /\ pc[i] = "sendItem"
    /\ StreamCtxDone(i)
    /\ pc' = [pc EXCEPT ![i] = "done"]
    /\ UNCHANGED <<pending, invoked, res, chose, totalCount, left, received,
                   lateDelivery>>
    /\ TaskFrame

\* The inner select, case addrChanOut <- addr meets the caller's receive.
ProvidersDeliver(i) ==
    /\ pc[i] = "sendItem"
    /\ ReaderReady
    /\ received' = received + 1
    /\ lateDelivery' = (lateDelivery \/ ctxDone)
    /\ pc' = [pc EXCEPT ![i] = "loop"]
    /\ UNCHANGED <<pending, invoked, res, chose, totalCount, left>>
    /\ TaskFrame

\* Fault variant: the channel is closed as soon as one task is done.
ProvidersCloseWhen_AnyDone ==
    Entries = {} \/ \E i \in Entries : pc[i] = "done"

\* When the closing goroutine of FindProvidersAsync closes addrChanOut.
ProvidersCloseWhen == wgWait

\* wg.Wait(); close(addrChanOut)
ProvidersClose ==
    /\ outCh = "open"
    /\ ProvidersCloseWhen
    /\ outCh' = "closed"
    /\ UNCHANGED <<routers, ctxDone, timC, pc, pending, errCh, errOut,
                   mainPc, retErr, invoked, res, chose, firedFirst,
                   cancelInFlight, gcancel, expired, retVal, val, winner,
                   firstAnswer, streamVars>>

\* The steps of entry i's goroutine, and the passing of its durations.
ProvidersTask(i) ==
    \/ StreamTimerFire(i)
    \/ StreamTimeout(i)
    \/ ProvidersSelectDone(i)
    \/ ProvidersSelectTimer(i)
    \/ ProvidersReturn(i)
    \/ ProvidersLoopDone(i)
    \/ ProvidersRecv(i)
    \/ ProvidersStreamEnd(i)
    \/ ProvidersSendDone(i)

NextProviders ==
    \/ StreamCancel
    \/ StopReading
    \/ \E i \in Entries : StreamTimerFire(i)
    \/ \E i \in Entries : StreamTimeout(i)
    \/ \E i \in Entries : ProvidersSelectDone(i)
    \/ \E i \in Entries : ProvidersSelectTimer(i)
    \/ \E i \in Entries : ProvidersReturn(i)
    \/ \E i \in Entries : ProvidersLoopDone(i)
    \/ \E i \in Entries : ProvidersRecv(i)
    \/ \E i \in Entries : ProvidersStreamEnd(i)
    \/ \E i \in Entries : ProvidersSendDone(i)
    \/ \E i \in Entries : ProvidersDeliver(i)
    \/ ProvidersClose

SpecProviders == Start("FindProvidersAsync") /\ [][NextProviders]_vars

-----------------------------------------------------------------------------
(* SearchValue *)

\* What the backend's SearchValue of entry i can return: a stream that will
\* yield n values and then be closed, with a nil error; or a nil stream with
\* an error (SearchValue does not tell ErrNotFound from other errors).
SearchResults(i) ==
    [n : 0 .. MaxItems, err : {Nil}] \cup [n : {0}, err : {<<Leaf(i, "hard")>>}]

\* select, case <-ctx.Done(): return.
SearchSelectDone(i) ==
    /\ pc[i] = "select"
    /\ ctxDone
    /\ chose' = [chose EXCEPT ![i] = "ctx"]
    /\ pc' = [pc EXCEPT ![i] = "done"]
    /\ UNCHANGED <<pending, invoked, res, totalCount, left, received,
                   lateDelivery>>
    /\ TaskFrame

\* select, case <-tim.C: the backend's SearchValue is called.
SearchSelectTimer(i) ==
    /\ pc[i] = "select"
    /\ TimerReady(i)
    /\ chose' = [chose EXCEPT ![i] = "tim"]
    /\ pc' = [pc EXCEPT ![i] = "running"]
    /\ invoked' = [invoked EXCEPT ![i] = @ + 1]
    /\ UNCHANGED <<pending, res, totalCount, left, received, lateDelivery>>
    /\ TaskFrame

\* Fault variant: the IgnoreError flag is not consulted.
SearchOffersErr_IgnoreFlagUnread(r, err) == err # Nil

\* Whether SearchValue offers the backend's error on errCh.
SearchOffersErr(r, err) == err # Nil /\ ~r.IgnoreError

\* The backend's SearchValue returns (valueChan, err): an error of a
\* non-ignoring entry is offered on errCh, otherwise the task goes on to
\* read valueChan.
SearchReturn(i) ==
    /\ pc[i] = "running"
    /\ \E r \in SearchResults(i) :
         /\ res' = [res EXCEPT ![i] = r.err]
         /\ left' = [left EXCEPT ![i] = r.n]
         /\ IF SearchOffersErr(routers[i], r.err)
              THEN /\ pc' = [pc EXCEPT ![i] = "offerErr"]
                   /\ pending' = [pending EXCEPT ![i] = r.err]
              ELSE /\ pc' = [pc EXCEPT ![i] = "loop"]
                   /\ UNCHANGED pending
    /\ UNCHANGED <<invoked, chose, totalCount, received, lateDelivery>>
    /\ TaskFrame

\* Fault variant: the error send does not watch the entry's context.
SearchErrDoneWhen_Never(i) == FALSE

\* When the cancellation case of the error send's select is ready.
SearchErrDoneWhen(i) == StreamCtxDone(i)

\* The error send's select, case <-ctx.Done(): return, dropping the error.
SearchErrDone(i) ==
    /\ pc[i] = "offerErr"
    /\ SearchErrDoneWhen(i)
    /\ pc' = [pc EXCEPT ![i] = "done"]
    /\ pending' = [pending EXCEPT ![i] = Nil]
    /\ UNCHANGED <<invoked, res, chose, totalCount, left, received,
                   lateDelivery>>
    /\ TaskFrame

\* The loop's select, case <-ctx.Done(): return.
SearchLoopDone(i) ==
    /\ pc[i] = "loop"
    /\ StreamCtxDone(i)
    /\ pc' = [pc EXCEPT ![i] = "done"]
    /\ UNCHANGED <<pending, invoked, res, chose, totalCount, left, received,
                   lateDelivery>>
    /\ TaskFrame

\* The loop's select, case val, ok := <-valueChan with a value.  A nil
\* valueChan (the backend returned an error) is never ready.
SearchRecv(i) ==
    /\ pc[i] = "loop"
    /\ res[i] = Nil
    /\ left[i] > 0
    /\ left' = [left EXCEPT ![i] = @ - 1]
    /\ pc' = [pc EXCEPT ![i] = "sendItem"]
    /\ UNCHANGED <<pending, invoked, res, chose, totalCount, received,
                   lateDelivery>>
    /\ TaskFrame

\* The loop's select, case val, ok := <-valueChan on the closed stream:
\* return.
SearchStreamEnd(i) ==
    /\ pc[i] = "loop"
    /\ res[i] = Nil
    /\ left[i] = 0
    /\ pc' = [pc EXCEPT ![i] = "done"]
    /\ UNCHANGED <<pending, invoked, res, chose, totalCount, left, received,
                   lateDelivery>>
    /\ TaskFrame

\* The inner select, case <-ctx.Done(): return, dropping the value.
SearchSendDone(i) ==
    /\ pc[i] = "sendItem"
    /\ StreamCtxDone(i)
    /\ pc' = [pc EXCEPT ![i] = "done"]
    /\ UNCHANGED <<pending, invoked, res, chose, totalCount, left, received,
                   lateDelivery>>
    /\ TaskFrame

\* The inner select, case outCh <- val meets the caller's receive.
SearchDeliver(i) ==
    /\ pc[i] = "sendItem"
    /\ ReaderReady
    /\ received' = received + 1
    /\ pc' = [pc EXCEPT ![i] = "loop"]
    /\ UNCHANGED <<pending, invoked, res, chose, totalCount, left,
                   lateDelivery>>
    /\ TaskFrame

\* wg.Wait(); close(outCh)
SearchCloseOut ==
    /\ outCh = "open"
    /\ wgWait
    /\ outCh' = "closed"
    /\ UNCHANGED <<routers, ctxDone, timC, pc, pending, errCh, errOut,
                   mainPc, retErr, invoked, res, chose, firedFirst,
                   cancelInFlight, gcancel, expired, retVal, val, winner,
                   firstAnswer, streamVars>>

\* close(errCh)
SearchCloseErr ==
    /\ outCh = "closed"
    /\ errCh = "open"
    /\ errCh' = "closed"
    /\ UNCHANGED <<routers, ctxDone, timC, pc, pending, errOut, mainPc,
                   retErr, invoked, res, chose, firedFirst, cancelInFlight,
                   raceVars, streamVars>>

\* SearchValue returns (stream, err); stream is outCh or nil.
SearchRet(stream, err) ==
    /\ mainPc' = "returned"
    /\ retStream' = stream
    /\ retErr' = err
    /\ UNCHANGED <<routers, ctxDone, timC, errCh, errOut, invoked, res,
                   chose, firedFirst, cancelInFlight, raceVars, op, count,
                   totalCount, left, received, reading, lateDelivery>>

\* The caller's select, case err, ok := <-errCh with an error: errCh <- err
\* of task i meets the receive; return nil, err.
SearchRecvErr(i) ==
    /\ mainPc = "running"
    /\ pc[i] = "offerErr"
    /\ pc' = [pc EXCEPT ![i] = "done"]
    /\ pending' = [pending EXCEPT ![i] = Nil]
    /\ SearchRet(FALSE, pending[i])

\* The caller's select, case err, ok := <-errCh, errCh closed: return nil,
\* routing.ErrNotFound.
SearchErrClosed ==
    /\ mainPc = "running"
    /\ errCh = "closed"
    /\ UNCHANGED <<pc, pending>>
    /\ SearchRet(FALSE, NotFound)

\* The caller's select, case <-ctx.Done(): return nil, ctx.Err().
SearchCallerDone ==
    /\ mainPc = "running"
    /\ ctxDone
    /\ UNCHANGED <<pc, pending>>
    /\ SearchRet(FALSE, CtxErr(0))

\* Fault variant: the default case is taken whatever else is ready.
SearchDefaultWhen_Always == TRUE

\* The default case of the caller's select runs only when no other case is
\* ready: errCh has no sender and is open, and the context is not done.
SearchDefaultWhen ==
    /\ errCh = "open"
    /\ ~ctxDone
    /\ \A i \in Entries : pc[i] # "offerErr"

\* The caller's select, default: return outCh, nil.
SearchDefault ==
    /\ mainPc = "running"
    /\ SearchDefaultWhen
    /\ UNCHANGED <<pc, pending>>
    /\ SearchRet(TRUE, Nil)

\* The steps of entry i's goroutine, and the passing of its durations.
SearchTask(i) ==
    \/ StreamTimerFire(i)
    \/ StreamTimeout(i)
    \/ SearchSelectDone(i)
    \/ SearchSelectTimer(i)
    \/ SearchReturn(i)
    \/ SearchErrDone(i)
    \/ SearchLoopDone(i)
    \/ SearchRecv(i)
    \/ SearchStreamEnd(i)
    \/ SearchSendDone(i)

\* The steps of the closing goroutine.
SearchCloser == SearchCloseOut \/ SearchCloseErr

\* The caller's select.
SearchMain ==
    \/ \E i \in Entries : SearchRecvErr(i)
    \/ SearchErrClosed
    \/ SearchCallerDone
    \/ SearchDefault

NextSearch ==
    \/ StreamCancel
    \/ StopReading
    \/ \E i \in Entries : StreamTimerFire(i)
    \/ \E i \in Entries : StreamTimeout(i)
    \/ \E i \in Entries : SearchSelectDone(i)
    \/ \E i \in Entries : SearchSelectTimer(i)
    \/ \E i \in Entries : SearchReturn(i)
    \/ \E i \in Entries : SearchErrDone(i)
    \/ \E i \in Entries : SearchLoopDone(i)
    \/ \E i \in Entries : SearchRecv(i)
    \/ \E i \in Entries : SearchStreamEnd(i)
    \/ \E i \in Entries : SearchSendDone(i)
    \/ \E i \in Entries : SearchDeliver(i)
    \/ SearchCloseOut
    \/ SearchCloseErr
    \/ \E i \in Entries : SearchRecvErr(i)
    \/ SearchErrClosed
    \/ SearchCallerDone
    \/ SearchDefault

SpecSearch == Start("SearchValue") /\ [][NextSearch]_vars

-----------------------------------------------------------------------------
(* The four fan-out skeletons together, and the fair specifications *)

\* One call of any of the four functions.
Next ==
    \/ op = "execute" /\ NextExecute
    \/ op = "getValueOrError" /\ NextRace
    \/ op = "FindProvidersAsync" /\ NextProviders
    \/ op = "SearchValue" /\ NextSearch

Spec == Init /\ [][Next]_vars

\* The Go scheduler runs every runnable goroutine, timers fire and timeouts
\* pass, and every invoked closure returns.  Nothing obliges the caller to
\* cancel its context.
FairSpecExecute ==
    /\ SpecExecute
    /\ \A i \in 1 .. MaxRouters :
         WF_vars(i \in Entries /\ (\/ ExecuteTimerFire(i)
                                   \/ ExecuteSelectDone(i)
                                   \/ ExecuteSelectTimer(i)
                                   \/ ExecuteReturn(i)))
    /\ WF_vars(\E i \in Entries : ExecuteRecv(i))
    /\ WF_vars(ExecuteClose)
    /\ WF_vars(ExecuteRet)

\* The same for SearchValue.  Nothing obliges the caller to receive from
\* the stream or to cancel its context.
FairSpecSearch ==
    /\ SpecSearch
    /\ \A i \in 1 .. MaxRouters : WF_vars(i \in Entries /\ SearchTask(i))
    /\ WF_vars(SearchCloser)
    /\ WF_vars(SearchMain)

\* One call of either streaming function, fairly scheduled.
NextStream ==
    \/ op = "FindProvidersAsync" /\ NextProviders
    \/ op = "SearchValue" /\ NextSearch

StreamTask(i) ==
    \/ op = "FindProvidersAsync" /\ ProvidersTask(i)
    \/ op = "SearchValue" /\ SearchTask(i)

StreamCloser ==
    \/ op = "FindProvidersAsync" /\ ProvidersClose
    \/ op = "SearchValue" /\ SearchCloser

FairSpecStream ==
    /\ Start("FindProvidersAsync") \/ Start("SearchValue")
    /\ [][NextStream]_vars
    /\ \A i \in 1 .. MaxRouters : WF_vars(i \in Entries /\ StreamTask(i))
    /\ WF_vars(StreamCloser)
    /\ WF_vars(op = "SearchValue" /\ SearchMain)

-----------------------------------------------------------------------------
(* Properties of execute *)

IgnoreError(i) == routers[i].IgnoreError

\* The leaves of aggregate e that come from entry i, in order.
LeavesFrom(e, i) == SelectSeq(e, LAMBDA l : l.from = i)

\* Entry i's closure returned an error that execute does not ignore.
FailedHard(i) == ~IgnoreError(i) /\ res[i] # Nil

\* The call's cancellation fired before entry i's start delay expired.
CancelledBeforeDelay(i) == ctxDone /\ ~firedFirst[i]

\* C1 as stated: with the caller's context not cancelled, the aggregate that
\* execute returns holds exactly one entry for each non-ignoring router entry
\* whose closure returned an error, and nothing else.
C1_OneEntryPerFailure ==
    (mainPc = "returned" /\ ~ctxDone) =>
        \A i \in Entries :
            Len(LeavesFrom(retErr, i)) = (IF FailedHard(i) THEN 1 ELSE 0)

\* C1 amended: with the caller's context not cancelled, the aggregate holds,
\* for each non-ignoring entry whose closure returned an error, exactly that
\* error's leaves (one entry for a plain error, its constituent errors for an
\* aggregate, flattened one level) and nothing else; it is nil if and only if
\* no non-ignoring entry failed.
C1_AggregateIsFailures ==
    (mainPc = "returned" /\ ~ctxDone) =>
        /\ \A i \in Entries :
             LeavesFrom(retErr, i) = (IF FailedHard(i) THEN res[i] ELSE Nil)
        /\ (retErr = Nil) <=> ~(\E i \in Entries : FailedHard(i))

\* C1 witness: a call that was not cancelled returned the plain error of a
\* non-ignoring entry while an ignoring entry had failed too.
C1_Witness ==
    /\ mainPc = "returned" /\ ~ctxDone
    /\ \E i, j \in Entries :
         /\ ~IgnoreError(i) /\ res[i] = <<Leaf(i, "hard")>>
         /\ IgnoreError(j) /\ res[j] # Nil
         /\ retErr = res[i]

\* C2 as stated: when execute returns every task has finished, and every
\* closure has been invoked exactly once unless the cancellation fired before
\* the entry's start delay expired.
C2_OnceUnlessCancelledFirst ==
    mainPc = "returned" =>
        \A i \in Entries :
            /\ pc[i] = "done"
            /\ CancelledBeforeDelay(i) \/ invoked[i] = 1

\* C2 amended: when execute returns every task has finished, every closure
\* has been invoked at most once, and exactly once unless the entry's select
\* took the cancellation case (which it can also do when the cancellation
\* fired after the delay expired but before the select ran); without
\* cancellation every closure is invoked exactly once, whatever the other
\* entries returned.
C2_NoShortCircuit ==
    mainPc = "returned" =>
        \A i \in Entries :
            /\ pc[i] = "done"
            /\ invoked[i] <= 1
            /\ invoked[i] = 0 => (chose[i] = "ctx" /\ ctxDone)
            /\ ~ctxDone => invoked[i] = 1

\* C2 witness: execute returned after one entry failed and its sibling was
\* invoked and succeeded all the same.
C2_Witness ==
    /\ mainPc = "returned"
    /\ \E i, j \in Entries :
         /\ i # j
         /\ FailedHard(i)
         /\ invoked[j] = 1 /\ res[j] = Nil /\ pc[j] = "done"

\* C4 as stated: a cancellation that fires while some entry is still waiting
\* or running makes execute return an error carrying the cancellation.
C4_CancellationSurfaced ==
    (mainPc = "returned" /\ cancelInFlight) =>
        \E k \in 1 .. Len(retErr) : retErr[k].kind = "ctx"

\* C4 amended: the cancellation is carried by the aggregate for every
\* non-ignoring entry whose select took the cancellation case; entries with
\* IgnoreError = true drop it, so execute returns nil when every entry has
\* IgnoreError = true, cancelled or not.
C4_CancellationViaNonIgnoring ==
    mainPc = "returned" =>
        /\ \A i \in Entries :
             (chose[i] = "ctx" /\ ~IgnoreError(i)) =>
                 LeavesFrom(retErr, i) = CtxErr(i)
        /\ (\A i \in Entries : IgnoreError(i)) => retErr = Nil

\* C4 witness: the cancellation fired while entries were in flight, one
\* ignoring entry dropped it and one non-ignoring entry reported it.
C4_Witness ==
    /\ mainPc = "returned" /\ cancelInFlight
    /\ \E i, j \in Entries :
         /\ IgnoreError(i) /\ chose[i] = "ctx"
         /\ ~IgnoreError(j) /\ chose[j] = "ctx"
         /\ retErr = CtxErr(j)

\* C9: nothing an ignoring entry does (a closure error, a cancellation while
\* waiting) appears in the aggregate; execute returns nil whenever every
\* non-ignoring entry's closure succeeded; and an ignoring entry is never
\* left waiting to hand over an error.
C9_IgnoredNeverAggregated ==
    /\ \A i \in Entries : IgnoreError(i) => pc[i] # "send"
    /\ \A i \in Entries :
         IgnoreError(i) => /\ LeavesFrom(errOut, i) = Nil
                           /\ LeavesFrom(retErr, i) = Nil
    /\ mainPc = "returned" =>
         ((\A i \in Entries :
              ~IgnoreError(i) => (invoked[i] = 1 /\ res[i] = Nil))
          => retErr = Nil)

\* C9 witness: execute returned nil although one ignoring entry's closure
\* failed and another ignoring entry was cancelled while waiting.
C9_Witness ==
    /\ mainPc = "returned" /\ retErr = Nil
    /\ \E i, j \in Entries :
         /\ IgnoreError(i) /\ res[i] # Nil
         /\ IgnoreError(j) /\ chose[j] = "ctx"

\* C10 as stated: an entry whose delay had not elapsed when the cancellation
\* fired never has its closure invoked and contributes exactly one
\* cancellation error if it is non-ignoring and nothing if it is ignoring;
\* no closure is invoked before its start delay elapsed.
C10_NeverInvokedAfterCancel ==
    \A i \in Entries :
        /\ CancelledBeforeDelay(i) =>
             /\ invoked[i] = 0
             /\ mainPc = "returned" =>
                  LeavesFrom(retErr, i) =
                      (IF IgnoreError(i) THEN Nil ELSE CtxErr(i))
        /\ invoked[i] > 0 => timC[i]

\* C10 amended: an entry whose select takes the cancellation case, as it must
\* when its delay has still not elapsed by the time the select runs, never
\* has its closure invoked and contributes exactly one cancellation error if
\* it is non-ignoring and nothing if it is ignoring; no closure is invoked
\* before its start delay elapsed.
C10_CancelledWhileWaiting ==
    \A i \in Entries :
        /\ (pc[i] # "select" /\ ~timC[i]) => chose[i] = "ctx"
        /\ chose[i] = "ctx" =>
             /\ invoked[i] = 0
             /\ mainPc = "returned" =>
                  LeavesFrom(retErr, i) =
                      (IF IgnoreError(i) THEN Nil ELSE CtxErr(i))
        /\ invoked[i] > 0 => timC[i]

\* C10 witness: execute returned after a non-ignoring and an ignoring entry
\* were both cancelled before their delays elapsed.
C10_Witness ==
    /\ mainPc = "returned"
    /\ \E i, j \in Entries :
         /\ ~IgnoreError(i) /\ ~timC[i] /\ chose[i] = "ctx"
         /\ IgnoreError(j) /\ ~timC[j] /\ chose[j] = "ctx"
         /\ retErr = CtxErr(i)

-----------------------------------------------------------------------------
(* Properties of getValueOrError *)

\* e is the error of a cancelled context.
IsCtxErr(e) == e # Nil /\ e[1].kind = "ctx"

\* Entry i's closure returned a non-empty value and no error.
ProducedValue(i) == val[i] # 0 /\ res[i] = Nil

\* Entry i's closure finished as a soft miss: ErrNotFound (with the zero
\* value) or an empty value.
SoftMiss(i) ==
    /\ invoked[i] = 1 /\ pc[i] = "done"
    /\ val[i] = 0 /\ res[i] \in {Nil, NotFound}

\* Entry i's closure returned a hard error: not nil, not ErrNotFound, from a
\* non-ignoring entry.
HardError(i) == res[i] \notin {Nil, NotFound} /\ ~IgnoreError(i)

\* Entry i's closure returned a non-empty value or a hard error.
Answered(i) == val[i] # 0 \/ HardError(i)

\* C3: once the call has returned, every entry's task eventually terminates.
C3_TasksTerminate ==
    (mainPc = "returned") ~> (\A i \in Entries : pc[i] = "done")

\* C5 as stated: if the caller's context is cancelled before any entry has
\* handed over a value or an error, the call returns the cancellation error.
C5_CancelReturnsCtxErr ==
    (mainPc = "returned" /\ ctxDone) => IsCtxErr(retErr)

\* C5 amended: with the caller's context cancelled, the call returns the
\* cancellation error and the zero value whenever, at the moment its select
\* takes a case, no entry is offering a value or a closure's error and the
\* channels are not closed; with such a case ready too the select may take
\* it instead.
C5_CtxErrUnlessOtherCaseReady ==
    [][(/\ mainPc = "running" /\ mainPc' = "returned"
        /\ ctxDone
        /\ outCh = "open"
        /\ \A i \in Entries : pc[i] \notin {"offerVal", "offerErr"})
       => (IsCtxErr(retErr') /\ retVal' = 0)]_vars

\* C5 witness: the call returned the cancellation error from the caller's
\* own cancellation case while an ignoring entry was still in flight.
C5_Witness ==
    /\ mainPc = "returned" /\ ctxDone
    /\ winner = 0 /\ IsCtxErr(retErr) /\ retVal = 0
    /\ outCh = "open"
    /\ \A i \in Entries : pc[i] \notin {"offerVal", "offerErr"}
    /\ \E i \in Entries : IgnoreError(i) /\ pc[i] \in {"select", "running"}

\* C6 as stated: if the first closure to return a non-empty value or a hard
\* error is A's, returning a non-empty value, and the caller's context is not
\* cancelled, the call returns A's value with a nil error.
C6_FirstAnswerWins ==
    (/\ mainPc = "returned" /\ ~ctxDone
     /\ firstAnswer # 0
     /\ ProducedValue(firstAnswer))
    => (retVal = val[firstAnswer] /\ retErr = Nil)

\* C6 amended: the call returns the value whose handover the caller's select
\* receives, which need not be the value of the closure that returned first;
\* it is A's value with a nil error if A's closure returned a non-empty
\* value, A's own timeout has not expired, no other closure has returned a
\* non-empty value or a hard error, and the caller's context is not
\* cancelled.  A nil error always comes with the non-empty value of the one
\* entry whose handover was received.
C6_ReceivedValueWins ==
    mainPc = "returned" =>
        /\ retErr = Nil =>
             (winner \in Entries /\ retVal = val[winner] /\ retVal # 0)
        /\ \A a \in Entries :
             (/\ ~ctxDone
              /\ ProducedValue(a) /\ ~expired[a]
              /\ \A b \in Entries \ {a} : ~Answered(b))
             => (retVal = val[a] /\ retErr = Nil)

\* C6 witness: A's closure returned its value first, B's closure returned a
\* value later, and the call returned A's value.
C6_Witness ==
    /\ mainPc = "returned" /\ ~ctxDone
    /\ \E a, b \in Entries :
         /\ a # b /\ firstAnswer = a
         /\ ProducedValue(a) /\ ProducedValue(b)
         /\ retVal = val[a] /\ retErr = Nil /\ winner = a

\* Entry i's closure finished with ErrNotFound, whatever value came with it,
\* or with a nil error and an empty value.
ReportedMiss(i) ==
    /\ invoked[i] = 1 /\ pc[i] = "done"
    /\ res[i] = NotFound \/ (res[i] = Nil /\ isEmpty(val[i]))

\* C7 as stated: if every entry's closure reported ErrNotFound or a value
\* that isEmpty rejects, and the caller's context is not cancelled, the call
\* returns ErrNotFound, for any number of entries, zero included.
C7_AllReportedMissNotFound ==
    (/\ mainPc = "returned" /\ ~ctxDone
     /\ \A i \in Entries : ReportedMiss(i))
    => (retErr = NotFound /\ retVal = 0)

\* C7 amended: if every entry's closure returned an empty value, with a nil
\* error or with ErrNotFound, and the caller's context is not cancelled, the
\* call returns ErrNotFound and the zero value, for any number of entries,
\* zero included.  A non-empty value that comes with ErrNotFound is not a
\* miss: it is handed over and returned with a nil error.
C7_AllMissNotFound ==
    (/\ mainPc = "returned" /\ ~ctxDone
     /\ \A i \in Entries : SoftMiss(i))
    => (retErr = NotFound /\ retVal = 0)

\* C7 witness: two entries, one reporting ErrNotFound and one an empty
\* value, and the call returned ErrNotFound.
C7_Witness ==
    /\ mainPc = "returned" /\ ~ctxDone
    /\ Len(routers) = 2
    /\ \A i \in Entries : SoftMiss(i)
    /\ \E i, j \in Entries : res[i] = NotFound /\ res[j] = Nil
    /\ retErr = NotFound

\* C8 as stated: the call returns ErrNotFound only after every task has
\* terminated without a handover; and if one entry is a soft miss and
\* another produces a non-empty value (no hard error, no cancellation), the
\* result is a value, never ErrNotFound.
C8_SoftMissNeverEndsRace ==
    mainPc = "returned" =>
        /\ retErr = NotFound =>
             (winner = 0 /\ \A i \in Entries : pc[i] = "done")
        /\ (/\ ~ctxDone
            /\ \A k \in Entries : ~HardError(k)
            /\ \E i, j \in Entries : SoftMiss(i) /\ ProducedValue(j))
           => (retErr = Nil /\ retVal # 0)

\* C8 amended: the same, for a producing entry whose own Timeout has not
\* expired: an entry whose timeout expired before the handover may abandon
\* its value, and the call then returns ErrNotFound.
C8_SoftMissUnlessExpired ==
    mainPc = "returned" =>
        /\ retErr = NotFound =>
             (winner = 0 /\ \A i \in Entries : pc[i] = "done")
        /\ (/\ ~ctxDone
            /\ \A k \in Entries : ~HardError(k)
            /\ \E i, j \in Entries :
                 SoftMiss(i) /\ ProducedValue(j) /\ ~expired[j])
           => (retErr = Nil /\ retVal # 0)

\* C8 witness: one entry reported ErrNotFound, the other then produced a
\* value, and the call returned that value.
C8_Witness ==
    /\ mainPc = "returned" /\ ~ctxDone
    /\ \E i, j \in Entries :
         /\ SoftMiss(i) /\ res[i] = NotFound
         /\ ProducedValue(j) /\ firstAnswer = j
         /\ retVal = val[j] /\ retErr = Nil

-----------------------------------------------------------------------------
(* Properties of FindProvidersAsync *)

RECURSIVE SumLeft(_)
\* The number of items the backends' streams of the entries in S have yet
\* to yield.
SumLeft(S) ==
    IF S = {} THEN 0
    ELSE LET i == CHOOSE x \in S : TRUE IN left[i] + SumLeft(S \ {i})

\* The number of items the backends' streams produce in total: those the
\* entry tasks have taken and those still to come.
TotalItems == totalCount + SumLeft(Entries)

\* The number of entry tasks holding an item they are about to send.
Holding == Cardinality({i \in Entries : pc[i] = "sendItem"})

Min(a, b) == IF a < b THEN a ELSE b

\* C11: with a count limit L > 0, the items delivered on the merged stream,
\* together with the items entry tasks hold for sending, never exceed L; and
\* an entry task whose increment takes the shared counter above L returns
\* without sending.
C11_QuotaNeverExceeded ==
    /\ [](count > 0 => received + Holding <= count)
    /\ [][\A i \in Entries :
            (/\ count > 0
             /\ pc[i] = "loop"
             /\ left'[i] < left[i]
             /\ totalCount' > count)
            => pc'[i] = "done"]_vars

\* C11 witness: with limit 1 and two entries with an item each, and no
\* cancellation, one item was delivered, the counter went above the limit,
\* and the stream is closed.
C11_Witness ==
    /\ count = 1 /\ Len(routers) = 2 /\ ~ctxDone
    /\ \A i \in Entries : invoked[i] = 1 /\ ~expired[i]
    /\ received = 1 /\ totalCount = 2
    /\ outCh = "closed"

\* C13 as stated: no item is delivered after the caller's context has been
\* cancelled.
C13_NoDeliveryAfterCancel == ~lateDelivery

\* C13 amended: after the caller's context has been cancelled, an entry task
\* that takes the cancellation case of one of its selects returns without
\* delivering, dropping the item it may hold; a further item is delivered
\* only by a task whose select takes the send case, which needs the caller
\* to be receiving still; and the stream carries nothing but the items the
\* entry tasks took from their backends, so no error value.  A select that
\* finds the cancellation together with a ready timer, backend item or
\* reader may take the other case, so items can be delivered after the
\* cancellation.
C13_DeliveryOnlyBySendCase ==
    /\ [](received <= totalCount)
    /\ [][ctxDone =>
            /\ \A i \in Entries :
                 (pc[i] # "done" /\ pc'[i] = "done" /\ left'[i] = left[i])
                 => received' = received
            /\ received' # received =>
                 /\ received' = received + 1
                 /\ reading
                 /\ \E i \in Entries :
                      pc[i] = "sendItem" /\ pc'[i] = "loop"]_vars

\* C13 witness: with no limit and no timeout expired, the context was
\* cancelled, an item was delivered after the cancellation, and an item
\* that a task had taken was dropped.
C13_Witness ==
    /\ ctxDone /\ count = 0
    /\ \A i \in Entries : ~expired[i] /\ pc[i] = "done"
    /\ lateDelivery
    /\ totalCount > received

\* C18: at every moment the number of delivered items is at most the value
\* of the shared counter; and when the stream is closed while the caller
\* was reading throughout, with no cancellation and no per-entry timeout
\* expired, the caller has received every item the backends' streams
\* produce if the limit is 0, and min(L, T) of the T items they produce if
\* the limit is L > 0.
C18_NoLostItems ==
    /\ received <= totalCount
    /\ (/\ op = "FindProvidersAsync"
        /\ outCh = "closed"
        /\ reading /\ ~ctxDone
        /\ \A i \in Entries : ~expired[i])
       => received = (IF count = 0 THEN TotalItems
                                   ELSE Min(count, TotalItems))

\* C18 witness: limit 2, two entries whose streams produce three items in
\* total, the caller read throughout, and received two items.
C18_Witness ==
    /\ op = "FindProvidersAsync"
    /\ outCh = "closed" /\ reading /\ ~ctxDone
    /\ \A i \in Entries : ~expired[i]
    /\ count = 2 /\ Len(routers) = 2
    /\ TotalItems = 3 /\ received = 2

-----------------------------------------------------------------------------
(* Properties of the streaming fan-in *)

\* Every entry's backend has been called and its stream has nothing more to
\* yield.
StreamsEnded ==
    \A i \in Entries : invoked[i] = 1 /\ pc[i] # "running" /\ left[i] = 0

\* C12: once every entry's own stream has ended, or the caller's context is
\* cancelled, every entry task eventually terminates and the merged output
\* stream is eventually closed, whether or not the caller receives from it.
C12_FanInTerminates ==
    (StreamsEnded \/ ctxDone) ~> (wgWait /\ outCh = "closed")

\* C12 witness: the caller of FindProvidersAsync stopped reading while a
\* task held an item, never cancelled, and the stream is closed.
C12_Witness ==
    /\ op = "FindProvidersAsync"
    /\ ~reading /\ ~ctxDone
    /\ wgWait /\ outCh = "closed"
    /\ count = 0 /\ totalCount > received
    /\ StreamsEnded

-----------------------------------------------------------------------------
(* Properties of SearchValue *)

\* Entry i is offering its backend's error on errCh.
OfferingError(i) == pc[i] = "offerErr" /\ ~IgnoreError(i)

\* C14: if a non-ignoring entry is offering a search error at the moment
\* SearchValue's select takes a case, SearchValue returns a non-nil error
\* and a nil stream; and SearchValue returns either the stream with a nil
\* error or a nil stream with a non-nil error.
C14_EarlyFailureReturned ==
    /\ [](mainPc = "returned" => (retStream <=> retErr = Nil))
    /\ [][(/\ mainPc = "running" /\ mainPc' = "returned"
           /\ \E i \in Entries : OfferingError(i))
          => (retErr' # Nil /\ ~retStream')]_vars

\* C14 witness: with the caller's context not cancelled, SearchValue
\* returned the search error of a non-ignoring entry and a nil stream while
\* another entry was holding a value.
C14_Witness ==
    /\ op = "SearchValue"
    /\ mainPc = "returned" /\ ~ctxDone
    /\ ~retStream
    /\ \E i, j \in Entries :
         /\ ~IgnoreError(i) /\ retErr = <<Leaf(i, "hard")>>
         /\ pc[j] = "sendItem"

\* Entry i's search fails after SearchValue has returned the stream: its
\* task is offering the error with nobody receiving on errCh.
LateFailure(i) ==
    /\ i \in Entries
    /\ mainPc = "returned" /\ retStream
    /\ pc[i] = "offerErr"

\* C15: once SearchValue has returned the stream, a search failure of an
\* entry is dropped: whatever the caller receives from the stream is a value
\* held by an entry whose search succeeded; an entry holding a value can
\* deliver it to a receiving caller whatever the failing entries do; and the
\* failing entry's task terminates and the stream is eventually closed.
C15_LateFailureDropped ==
    /\ [][received' # received =>
            \E j \in Entries :
                /\ pc[j] = "sendItem" /\ res[j] = Nil
                /\ pc'[j] = "loop"
                /\ received' = received + 1]_vars
    /\ [](\A j \in Entries :
            (pc[j] = "sendItem" /\ ReaderReady) => ENABLED SearchDeliver(j))
    /\ \A i \in 1 .. MaxRouters :
         LateFailure(i) ~> (i \in Entries /\ pc[i] = "done"
                                           /\ pending[i] = Nil)
    /\ (\E i \in 1 .. MaxRouters : LateFailure(i)) ~> (outCh = "closed")

\* C15 witness: SearchValue returned the stream, the caller received a
\* value, and then a non-ignoring entry failed while another entry was
\* holding a value.
C15_Witness ==
    /\ op = "SearchValue"
    /\ ~ctxDone /\ reading /\ received > 0
    /\ \E i, j \in Entries :
         /\ LateFailure(i) /\ ~expired[i]
         /\ pc[j] = "sendItem"

-----------------------------------------------------------------------------
(* Further properties of getValueOrError *)

\* C16 as stated: if a non-ignoring entry's closure returned an error that
\* is not ErrNotFound, no entry's closure returned a non-empty value and the
\* caller's context is not cancelled, the call returns a hard error, never
\* ErrNotFound or nil, also when the failing entry's timeout has expired.
C16_HardErrorSurfaces ==
    (/\ mainPc = "returned" /\ ~ctxDone
     /\ \E i \in Entries : HardError(i)
     /\ \A j \in Entries : val[j] = 0)
    => retErr \notin {Nil, NotFound}

\* C16 amended: the same, for a failing entry whose own Timeout has not
\* expired: an entry whose timeout expired before the handover may drop its
\* error, and the call then returns ErrNotFound if no other entry answers.
\* The error returned is the one a non-ignoring entry's closure returned.
C16_HardErrorUnlessExpired ==
    (/\ mainPc = "returned" /\ ~ctxDone
     /\ \E i \in Entries : HardError(i) /\ ~expired[i]
     /\ \A j \in Entries : val[j] = 0)
    => /\ retErr \notin {Nil, NotFound}
       /\ winner \in Entries
       /\ HardError(winner) /\ retErr = res[winner]

\* C16 witness: one entry reported ErrNotFound, the other, non-ignoring,
\* returned another error before its timeout expired, and the call returned
\* that error.
C16_Witness ==
    /\ mainPc = "returned" /\ ~ctxDone
    /\ \A j \in Entries : val[j] = 0
    /\ \E i, j \in Entries :
         /\ HardError(i) /\ ~expired[i]
         /\ SoftMiss(j) /\ res[j] = NotFound
         /\ retErr = res[i] /\ winner = i

\* C17 as stated: a nil error comes with a non-empty value that some entry's
\* closure returned together with a nil error; a non-nil error comes with
\* the zero value.
C17_ValueOfCleanInvocation ==
    mainPc = "returned" =>
        /\ retErr = Nil =>
             /\ ~isEmpty(retVal)
             /\ \E i \in Entries :
                  invoked[i] = 1 /\ val[i] = retVal /\ res[i] = Nil
        /\ retErr # Nil => retVal = 0

\* C17 amended: a nil error comes with a non-empty value, the one the
\* closure of the entry whose handover was received returned; that closure
\* returned it with a nil error, with ErrNotFound, or with any error if the
\* entry ignores errors.  A non-nil error comes with the zero value.
C17_ValueOfUnreportedInvocation ==
    mainPc = "returned" =>
        /\ retErr = Nil =>
             /\ ~isEmpty(retVal)
             /\ winner \in Entries
             /\ invoked[winner] = 1 /\ val[winner] = retVal
             /\ \/ res[winner] \in {Nil, NotFound}
                \/ IgnoreError(winner)
        /\ retErr # Nil => retVal = 0

\* C17 witness: the call returned, with a nil error, the value that an
\* ignoring entry's closure returned together with an error.
C17_Witness ==
    /\ mainPc = "returned" /\ retErr = Nil
    /\ winner \in Entries
    /\ IgnoreError(winner)
    /\ res[winner] = <<Leaf(winner, "hard")>>
    /\ retVal = val[winner] /\ retVal # 0

-----------------------------------------------------------------------------
(* Properties of the four skeletons *)

\* C19: a channel of a call is closed only after every entry task of the
\* call has finished, so no entry task is sending, or about to send, on a
\* closed channel; and a closed channel is not closed again.
C19_ClosedAfterAllTasks ==
    /\ [](/\ (errCh = "closed" \/ outCh = "closed") => wgWait
          /\ \A i \in Entries :
               /\ pc[i] \in {"send", "sendCtx", "offerErr"}
                    => errCh = "open"
               /\ pc[i] \in {"offerVal", "sendItem"} => outCh = "open")
    /\ [][/\ errCh = "closed" => errCh' = "closed"
          /\ outCh = "closed" => outCh' = "closed"
          /\ errCh' # errCh => errCh = "open" /\ wgWait
          /\ outCh' # outCh => outCh = "open" /\ wgWait]_vars

\* C19 witness: SearchValue's two channels are closed after one task
\* delivered a value and another gave up its error.
C19_Witness ==
    /\ op = "SearchValue"
    /\ outCh = "closed" /\ errCh = "closed"
    /\ received > 0
    /\ \E i \in Entries : ~IgnoreError(i) /\ res[i] # Nil /\ retStream

\* C20: execute eventually returns, and every entry task that is sending on
\* errCh eventually completes its send and terminates.
C20_ExecuteReturns ==
    /\ <>(mainPc = "returned")
    /\ \A i \in 1 .. MaxRouters :
         (i \in Entries /\ pc[i] = "send")
             ~> (i \in Entries /\ pc[i] = "done")

\* C20 witness: execute returned after both entries were sending at once,
\* one its closure's error and one the cancellation error.
C20_Witness ==
    /\ mainPc = "returned"
    /\ \E i, j \in Entries :
         /\ res[i] = <<Leaf(i, "hard")>> /\ chose[j] = "ctx"
         /\ retErr = CtxErr(j) \o res[i]

=============================================================================
